---- MODULE Spec2Model ----
(***************************************************************************)
(* Model of the embedded profiling client (package client): the session    *)
(* registry c.sessions guarded by c.mu, StartProfiling, StopProfiling,     *)
(* Close, the one-shot duration timer and the per-session collector        *)
(* goroutines (CPU bracketed capture, heap/IO/metrics tickers), together   *)
(* with the process-wide runtime/pprof CPU profiler they share.            *)
(*                                                                         *)
(* Every invocation of an operation is a process of its own, so any two    *)
(* invocations may overlap.  A profilingSession object is identified by    *)
(* the StartProfiling invocation that allocates it (PS); its session id is *)
(* the clock value that invocation read.                                   *)
(***************************************************************************)
EXTENDS Integers, Sequences, FiniteSets, TLC

\* ---------------------------------------------------------------- bounds
MaxSessions == 2
MaxTime == 2
MaxStops == 1
MaxLate == 2
MaxTaskSessions == 1
MaxCallers == 3
MaxStoreIds == 2
MaxSamples == 3

PS == 1..MaxSessions
\* time.Now().UnixNano() readings; the session id is ApplicationID + "_" + reading
Times == 1..MaxTime
Ids == Times
\* an id string that StartProfiling never returned
UnknownId == 0
\* the strings StopProfiling is called with
Keys == Ids \cup {UnknownId}
\* the zero time.Time (EndTime of a session that was not stopped)
ZeroTime == 0
\* "no session": a missing map entry, a nil *profilingSession
NoSession == 0

\* the ProfilingConfig values passed to StartProfiling
\* (types: ProfileTypes, metrics: CollectMetrics, interval: MetricsInterval,
\* timed: Duration > 0)
StartConfigs ==
    { [types |-> <<"cpu">>, metrics |-> FALSE, interval |-> 0, timed |-> TRUE],
      [types |-> <<"memory", "io">>, metrics |-> TRUE, interval |-> 1, timed |-> FALSE] }

\* outcomes of httpClient.Post in sendSession: a status code, or a transport error
SendOutcomes == {"200", "201", "500", "neterr"}

\* the invocations of StopProfiling: manual calls, one timer callback per
\* session, and the call made inside Close's loop
ManualStops == {<<"manual", i>> : i \in 1..MaxStops}
TimerStops == {<<"timer", s>> : s \in PS}
CloseStop == <<"close", 0>>
StopProcs == ManualStops \cup TimerStops \cup {CloseStop}

VARIABLES
    now,          \* the clock read by time.Now()
    mu,           \* c.mu: "free", or "close" while Close holds it
    sessions,     \* c.sessions: id -> profilingSession (NoSession when absent)
    ps,           \* the profilingSession objects
    sessCancel,   \* ps.cancel() was called (sessionCtx cancelled by the session)
    callerCtx,    \* the ctx the application passes to StartProfiling was cancelled
    clientCtx,    \* c.ctx was cancelled (c.cancel())
    cpuProf,      \* runtime/pprof's CPU profiler: NoSession when off, else the session whose buffer it writes
    startPc, startCfg,   \* StartProfiling invocations
    cpuTask,      \* the goroutine of startCPUProfile: "none" | "waiting" | "done"
    memRun, ioRun, metRun,        \* running collectMemoryProfile / collectIOProfile / collectMetrics goroutines
    timer,        \* time.AfterFunc of the session: "none" | "armed" | "fired"
    stopPc, stopArg, stopFound, stopRes,  \* StopProfiling invocations
    closePc,      \* the Close invocation
    sent,         \* per session object, the session records POSTed by sendSession
    cpuArt,       \* per session object, the CPU artifacts handed to sendProfileData
    panicked,     \* an unrecovered panic in a goroutine has aborted the process
    memBusy, ioBusy,          \* collectMemoryProfile / collectIOProfile goroutines inside an iteration
    lateMem, lateIO, lateMet, \* dispatches performed after StopProfiling signalled the session
    sendErr,      \* per task kind: the latest dispatch of the session returned an error
    ioPrev,       \* prevReadBytes, prevWriteBytes of the session's collectIOProfile
    ioSent,       \* the io samples handed to sendProfileData, in order
    colMu,        \* the collector's c.mu: 0 when free, else the handler holding it
    colSessions,  \* the collector's c.sessions: the ids in the map
    fsMu,         \* FileStorage.mu: the writer holding it (0: none) and the readers holding it
    fsSessions,   \* sessions/{id}.json
    fsProfiles,   \* profiles/{id}/: the directory, its payload and sidecar files
    fsMetrics,    \* metrics/{id}/metrics.jsonl
    hPc, hReq, hRes,  \* the calls in progress on the collector and its store
    autoPc,       \* where the autoProfile goroutine is ("off": config.AutoProfile unset)
    startCtx      \* the ctx each StartProfiling call was handed: the application's or c.ctx

clientVars == <<now, mu, sessions, ps, sessCancel, callerCtx, clientCtx, cpuProf,
                startPc, startCfg, cpuTask, memRun, ioRun, metRun, timer,
                stopPc, stopArg, stopFound, stopRes, closePc, sent, cpuArt,
                autoPc, startCtx>>
autoVars == <<autoPc, startCtx>>
tickVars == <<memBusy, ioBusy, lateMem, lateIO, lateMet, sendErr, ioPrev, ioSent>>
storeVars == <<fsMu, fsSessions, fsProfiles, fsMetrics>>
collectorVars == <<colMu, colSessions, storeVars, hPc, hReq, hRes>>

vars == <<clientVars, panicked, tickVars, collectorVars>>

startVars == <<startPc, startCfg>>
taskVars == <<cpuTask, memRun, ioRun, metRun>>
stopVars == <<stopPc, stopArg, stopFound, stopRes>>

NilSession == [id |-> 0, start |-> ZeroTime, end |-> ZeroTime, duration |-> 0,
               collecting |-> FALSE, cancel |-> FALSE, cpuFile |-> FALSE]

\* --------------------------------------------------------------- uint64
\* a uint64 as four 16-bit limbs, the least significant first
Limb16 == 65536
Zero64 == <<0, 0, 0, 0>>

\* a - b - borrow modulo 2^64, limb by limb
RECURSIVE SubLimbs(_, _, _)
SubLimbs(a, b, borrow) ==
    IF a = <<>> THEN <<>>
    ELSE LET d == Head(a) - Head(b) - borrow
         IN  <<d % Limb16>> \o SubLimbs(Tail(a), Tail(b), IF d < 0 THEN 1 ELSE 0)

\* a + b + carry modulo 2^64
RECURSIVE AddLimbs(_, _, _)
AddLimbs(a, b, carry) ==
    IF a = <<>> THEN <<>>
    ELSE LET d == Head(a) + Head(b) + carry
         IN  <<d % Limb16>> \o AddLimbs(Tail(a), Tail(b), d \div Limb16)

Sub64(a, b) == SubLimbs(a, b, 0)
Add64(a, b) == AddLimbs(a, b, 0)

\* a < b: the subtraction borrows out of the top limb
RECURSIVE Borrows(_, _, _)
Borrows(a, b, borrow) ==
    IF a = <<>> THEN borrow = 1
    ELSE Borrows(Tail(a), Tail(b), IF Head(a) - Head(b) - borrow < 0 THEN 1 ELSE 0)
Less64(a, b) == Borrows(a, b, 0)

\* proc.IOCounters() returned an error (line 239)
NoReading == <<>>

\* the cumulative counters proc.IOCounters() reports: small ones, 2^63, and
\* 2^64 - 1; a counter can be lower than at the reading before (the process
\* behind the pid can be another one)
IOReadings ==
    { [read |-> <<5, 0, 0, 0>>, write |-> <<0, 0, 0, 32768>>],
      [read |-> <<65535, 65535, 65535, 65535>>, write |-> <<7, 0, 0, 0>>],
      [read |-> <<3, 0, 0, 0>>, write |-> <<0, 0, 0, 32768>>] }

\* the readings of the specification of all the periodic tasks
TaskReadings == {NoReading, [read |-> <<5, 0, 0, 0>>, write |-> <<7, 0, 0, 0>>]}

\* ------------------------------------------- the collector and its store
\* the goroutines serving requests on the collector, or calling its store
Callers == 1..MaxCallers
NoCaller == 0
\* the session ids named by requests
SIds == 1..MaxStoreIds
\* the entries of the directory sessions/, in the order os.ReadDir lists them:
\* {id}.json for each id, then a sub-directory and a file without the .json
\* extension
SessionEntries == 1..(MaxStoreIds + 2)
SubdirEntry == MaxStoreIds + 1
PlainEntry == MaxStoreIds + 2
\* the application ids, and the one carried by the session record of each id
Apps == {"a", "b"}
AppOf(id) == IF id % 2 = 1 THEN "a" ELSE "b"

\* int64 values are pairs <<hi, lo>> standing for hi * LimbBase + lo
LimbBase == 2^27
\* 2^53 is <<Exact53, 0>>: below it every integer is a float64
Exact53 == 2^26

\* types.ProfileData values handed to SaveProfileData (timestamp: <<second,
\* nanosecond, offset of its zone from UTC in seconds>>, data: the payload
\* bytes, sample_count: an int64)
NoArtifact == [session_id |-> 0, type |-> "", timestamp |-> <<0, 0, 0>>,
               data |-> <<>>, sample_count |-> <<0, 0>>]
Artifacts ==
    { [session_id |-> 1, type |-> "cpu", timestamp |-> <<1, 0, 0>>,
       data |-> <<7>>, sample_count |-> <<0, 3>>],
      [session_id |-> 1, type |-> "cpu", timestamp |-> <<1, 5, 0>>,
       data |-> <<>>, sample_count |-> <<Exact53, 1>>],
      [session_id |-> 2, type |-> "heap", timestamp |-> <<1, 0, 0>>,
       data |-> <<8>>, sample_count |-> <<Exact53, 2>>] }

\* artifacts of one session with timestamps of 01:30:00 and 02:30:00 UTC, as
\* decoded from JSON: a time.Time keeps the zone offset it was written with
\* (an agent's time.Now() is in its local zone, whose offset changes with
\* daylight saving time); and an artifact of the other session
ZoneArtifacts ==
    { [session_id |-> 1, type |-> "cpu", timestamp |-> <<5400, 0, 0>>,
       data |-> <<7>>, sample_count |-> <<0, 3>>],
      [session_id |-> 1, type |-> "cpu", timestamp |-> <<5400, 5, 0>>,
       data |-> <<>>, sample_count |-> <<0, 4>>],
      [session_id |-> 1, type |-> "cpu", timestamp |-> <<9000, 0, -3600>>,
       data |-> <<6>>, sample_count |-> <<0, 5>>],
      [session_id |-> 1, type |-> "cpu", timestamp |-> <<5400, 0, 3600>>,
       data |-> <<5>>, sample_count |-> <<0, 6>>],
      [session_id |-> 2, type |-> "cpu", timestamp |-> <<5400, 0, 0>>,
       data |-> <<4>>, sample_count |-> <<0, 7>>] }

\* line 164: Timestamp.Format("20060102_150405") gives the wall clock of the
\* timestamp in its own zone, to the second, without the fraction
FormatStamp(timestamp) == timestamp[1] + timestamp[3]
\* lines 165 and 173: the name {type}_{stamp} shared by the two files
FileName(a) == <<a.type, FormatStamp(a.timestamp)>>
\* the names of a profile directory, in the order os.ReadDir lists them
NameOrder == << <<"cpu", 1>>, <<"cpu", 5400>>, <<"cpu", 9000>>, <<"heap", 1>> >>
Names == {NameOrder[i] : i \in 1..Len(NameOrder)}

\* a file that does not exist; an existing file is <<content>>
NoFile == <<>>
NoDir == [dir |-> FALSE, pprof |-> [n \in Names |-> NoFile],
          meta |-> [n \in Names |-> NoFile]]

\* types.MetricsSnapshot values (ts: the wall time, mono: the reading of the
\* monotonic clock time.Now() attaches, cpu: CPUPercent)
NoSnapshot == [ts |-> 0, mono |-> FALSE, cpu |-> ""]
Snapshots ==
    { [ts |-> 1, mono |-> TRUE, cpu |-> "12.5"],
      [ts |-> 2, mono |-> FALSE, cpu |-> "50"],
      [ts |-> 2, mono |-> FALSE, cpu |-> "NaN"] }

\* line 281: json.Marshal rejects a float that is not finite
MarshalFails(m) == m.cpu = "NaN"
\* lines 281-286: the line written for a snapshot; the JSON of a time.Time
\* carries the wall time only
MarshalLine(m) == [kind |-> "json", ts |-> m.ts, cpu |-> m.cpu]
\* line 327: json.Unmarshal of a line that parses
Unmarshal(line) == [ts |-> line.ts, mono |-> FALSE, cpu |-> line.cpu]
\* lines of a metrics file that SaveMetrics did not write: text that is not
\* JSON, a line of white space, a line longer than maxScanTokenSize
Garbage == [kind |-> "garbage", ts |-> 0, cpu |-> ""]
Blank == [kind |-> "blank", ts |-> 0, cpu |-> ""]
TooLong == [kind |-> "toolong", ts |-> 0, cpu |-> ""]
NoMetrics == [dir |-> FALSE, lines |-> <<>>]

\* metrics files found in the base directory when the store is opened
LeftoverMetrics ==
    { <<MarshalLine([ts |-> 1, mono |-> FALSE, cpu |-> "50"]), Garbage, Blank,
        MarshalLine([ts |-> 1, mono |-> FALSE, cpu |-> "12.5"])>>,
      <<TooLong>> }

\* the requests: the methods of FileStorage called on the store, and the
\* collector's handlers of POST /sessions, DELETE /sessions/{id} and GET /health
Request(op, id, art, m) == [op |-> op, id |-> id, art |-> art, m |-> m, app |-> ""]
NoRequest == Request("", 0, NoArtifact, NoSnapshot)
StoreRequests ==
    {Request(op, id, NoArtifact, NoSnapshot) :
        op \in {"SaveSession", "GetSession", "DeleteSession", "GetProfileData",
                "GetMetrics"}, id \in SIds}
    \cup {Request("SaveProfileData", a.session_id, a, NoSnapshot) : a \in Artifacts}
    \cup {Request("SaveMetrics", id, NoArtifact, m) : id \in SIds, m \in Snapshots}
HandlerRequests ==
    {Request(op, id, NoArtifact, NoSnapshot) :
        op \in {"handleCreateSession", "handleDeleteSession"}, id \in SIds}
    \cup {Request("handleHealth", 0, NoArtifact, NoSnapshot)}

NoResult == [status |-> "none", sess |-> <<>>, arts |-> <<>>, mets |-> <<>>,
             count |-> 0]

\* NewCollector (lines 25-38) over NewFileStorage (lines 37-45): an empty map,
\* both locks free, no call in progress
CollectorIdle ==
    /\ colMu = NoCaller
    /\ colSessions = {}
    /\ fsMu = [w |-> NoCaller, r |-> {}]
    /\ hPc = [c \in Callers |-> "idle"]
    /\ hReq = [c \in Callers |-> NoRequest]
    /\ hRes = [c \in Callers |-> NoResult]

\* a base directory that holds nothing
StoreEmpty ==
    /\ fsSessions = [e \in SessionEntries |-> NoFile]
    /\ fsProfiles = [i \in SIds |-> NoDir]
    /\ fsMetrics = [i \in SIds |-> NoMetrics]

\* the fields of the client that NewClient returns (lines 46-55)
ClientFields ==
    /\ now = 1
    /\ mu = "free"
    /\ sessions = [i \in Keys |-> NoSession]
    /\ ps = [s \in PS |-> NilSession]
    /\ sessCancel = [s \in PS |-> FALSE]
    /\ callerCtx = FALSE
    /\ clientCtx = FALSE
    /\ cpuProf = NoSession
    /\ startPc = [s \in PS |-> "idle"]
    /\ startCfg = [s \in PS |-> [types |-> <<>>, metrics |-> FALSE, interval |-> 0,
                                  timed |-> FALSE]]
    /\ cpuTask = [s \in PS |-> "none"]
    /\ memRun = [s \in PS |-> 0]
    /\ ioRun = [s \in PS |-> 0]
    /\ metRun = [s \in PS |-> 0]
    /\ timer = [s \in PS |-> "none"]
    /\ stopPc = [p \in StopProcs |-> "idle"]
    /\ stopArg = [p \in StopProcs |-> 0]
    /\ stopFound = [p \in StopProcs |-> NoSession]
    /\ stopRes = [p \in StopProcs |-> "none"]
    /\ closePc = "idle"
    /\ sent = [s \in PS |-> <<>>]
    /\ cpuArt = [s \in PS |-> 0]
    /\ panicked = FALSE
    /\ memBusy = [s \in PS |-> 0]
    /\ ioBusy = [s \in PS |-> 0]
    /\ lateMem = [s \in PS |-> 0]
    /\ lateIO = [s \in PS |-> 0]
    /\ lateMet = [s \in PS |-> 0]
    /\ sendErr = [s \in PS |-> [mem |-> FALSE, io |-> FALSE, met |-> FALSE]]
    /\ ioPrev = [s \in PS |-> [read |-> Zero64, write |-> Zero64]]
    /\ ioSent = [s \in PS |-> <<>>]
    /\ startCtx = [s \in PS |-> "caller"]

\* config.AutoProfile unset: NewClient spawns no autoProfile goroutine (line 57)
ClientInit == ClientFields /\ autoPc = "off"

\* a client, with no collector request in progress and an empty store
Init == ClientInit /\ CollectorIdle /\ StoreEmpty

\* ----------------------------------------------------------------- clock
\* time passes between two readings of time.Now()
Tick ==
    /\ now < MaxTime
    /\ now' = now + 1
    /\ UNCHANGED <<mu, sessions, ps, sessCancel, callerCtx, clientCtx, cpuProf,
                   startVars, taskVars, timer, stopVars, closePc, sent, cpuArt,
                   panicked, tickVars, autoVars, collectorVars>>

\* the application cancels the context it passes to its StartProfiling calls
CancelCallerCtx ==
    /\ \E s \in PS : startPc[s] # "idle"
    /\ ~callerCtx
    /\ callerCtx' = TRUE
    /\ UNCHANGED <<now, mu, sessions, ps, sessCancel, clientCtx, cpuProf,
                   startVars, taskVars, timer, stopVars, closePc, sent, cpuArt,
                   panicked, tickVars, autoVars, collectorVars>>

\* the ctx handed to StartProfiling, and by it to the collectors, is done: the
\* application's context, or c.ctx for a call made by autoProfile (line 380)
CtxDone(s) == IF startCtx[s] = "client" THEN clientCtx ELSE callerCtx

\* sessionCtx of startCPUProfile is derived from ctx: done when either is cancelled
SessionCtxDone(s) == sessCancel[s] \/ CtxDone(s)

\* -------------------------------------------------------- StartProfiling
\* lines 66-86: the call builds the session id from a clock reading, then the
\* session value (StartTime) and its wrapper with collecting = true
StartBegin(s, cfg) ==
    /\ startPc[s] = "idle"
    /\ \A t \in PS : t < s => startPc[t] # "idle"
    /\ startPc' = [startPc EXCEPT ![s] = "register"]
    /\ startCfg' = [startCfg EXCEPT ![s] = cfg]
    /\ ps' = [ps EXCEPT ![s].id = now, ![s].start = now, ![s].collecting = TRUE]
    /\ UNCHANGED <<now, mu, sessions, sessCancel, callerCtx, clientCtx, cpuProf,
                   taskVars, timer, stopVars, closePc, sent, cpuArt,
                   panicked, tickVars, autoVars, collectorVars>>

\* lines 88-90: c.mu.Lock(); c.sessions[sessionID] = ps; c.mu.Unlock()
StartRegister(s) ==
    /\ startPc[s] = "register"
    /\ mu = "free"
    /\ sessions' = [sessions EXCEPT ![ps[s].id] = s]
    /\ startPc' = [startPc EXCEPT ![s] = "launch"]
    /\ UNCHANGED <<now, mu, ps, sessCancel, callerCtx, clientCtx, cpuProf,
                   startCfg, taskVars, timer, stopVars, closePc, sent, cpuArt,
                   panicked, tickVars, autoVars, collectorVars>>

\* how often a profile type handled by the same case of the switch occurs in
\* config.ProfileTypes
RECURSIVE Count(_, _)
Count(types, kinds) ==
    IF types = <<>> THEN 0
    ELSE (IF Head(types) \in kinds THEN 1 ELSE 0) + Count(Tail(types), kinds)

\* startCPUProfile (lines 149-176) for each "cpu" of the list: ps.cpuFile is set
\* first; pprof.StartCPUProfile fails when the process-wide profiler is
\* already on, and then neither ps.cancel nor the goroutine is created
StartCPUProfile(s) ==
    IF cpuProf # NoSession
    THEN /\ ps' = [ps EXCEPT ![s].cpuFile = TRUE]
         /\ UNCHANGED <<cpuProf, cpuTask>>
    ELSE /\ ps' = [ps EXCEPT ![s].cpuFile = TRUE, ![s].cancel = TRUE]
         /\ cpuProf' = s
         /\ cpuTask' = [cpuTask EXCEPT ![s] = "waiting"]

\* line 283: time.NewTicker panics when its interval is not positive
NewTickerPanics(interval) == interval <= 0

\* lines 92-118: the loop over config.ProfileTypes launches the collectors,
\* then the metrics goroutine and the duration timer; return sessionID.  The
\* first statement of collectMetrics, ticker := time.NewTicker(interval), is
\* taken with the go statement that spawns it: a panic there is not recovered
\* and aborts the process
StartLaunch(s) ==
    /\ startPc[s] = "launch"
    /\ IF Count(startCfg[s].types, {"cpu"}) > 0
       THEN StartCPUProfile(s)
       ELSE UNCHANGED <<ps, cpuProf, cpuTask>>
    /\ memRun' = [memRun EXCEPT ![s] = Count(startCfg[s].types, {"memory", "heap"})]
    /\ ioRun' = [ioRun EXCEPT ![s] = Count(startCfg[s].types, {"io"})]
    /\ metRun' = [metRun EXCEPT ![s] =
                    IF startCfg[s].metrics /\ ~NewTickerPanics(startCfg[s].interval)
                    THEN 1 ELSE 0]
    /\ panicked' = (panicked \/ (startCfg[s].metrics
                                   /\ NewTickerPanics(startCfg[s].interval)))
    /\ timer' = [timer EXCEPT ![s] = IF startCfg[s].timed THEN "armed" ELSE "none"]
    /\ startPc' = [startPc EXCEPT ![s] = "done"]
    /\ UNCHANGED <<now, mu, sessions, sessCancel, callerCtx, clientCtx,
                   startCfg, stopVars, closePc, sent, cpuArt,
                   tickVars, autoVars, collectorVars>>

StartStep(s) == StartRegister(s) \/ StartLaunch(s)

\* ------------------------------------------------------ collector tasks
\* the goroutine of startCPUProfile (lines 160-173): blocks on sessionCtx.Done(),
\* then stops the process-wide profiler and hands one CPU artifact to
\* sendProfileData
CpuTaskRun(s) ==
    /\ cpuTask[s] = "waiting"
    /\ SessionCtxDone(s)
    /\ cpuProf' = NoSession
    /\ cpuArt' = [cpuArt EXCEPT ![s] = @ + 1]
    /\ cpuTask' = [cpuTask EXCEPT ![s] = "done"]
    /\ UNCHANGED <<now, mu, sessions, ps, sessCancel, callerCtx, clientCtx,
                   startVars, memRun, ioRun, metRun, timer, stopVars, closePc, sent,
                   panicked, tickVars, autoVars, collectorVars>>

\* collectMemoryProfile (lines 182-206), a wake-up that ends the goroutine:
\* ctx.Done() was selected, or the tick found ps.collecting cleared
MemExit(s) ==
    /\ memRun[s] > memBusy[s]
    /\ CtxDone(s) \/ ~ps[s].collecting
    /\ memRun' = [memRun EXCEPT ![s] = @ - 1]
    /\ UNCHANGED <<now, mu, sessions, ps, sessCancel, callerCtx, clientCtx, cpuProf,
                   startVars, cpuTask, ioRun, metRun, timer, stopVars, closePc,
                   sent, cpuArt,
                   panicked, tickVars, autoVars, collectorVars>>

\* collectIOProfile (lines 228-279): the same two exits
IOExit(s) ==
    /\ ioRun[s] > ioBusy[s]
    /\ CtxDone(s) \/ ~ps[s].collecting
    /\ ioRun' = [ioRun EXCEPT ![s] = @ - 1]
    /\ UNCHANGED <<now, mu, sessions, ps, sessCancel, callerCtx, clientCtx, cpuProf,
                   startVars, cpuTask, memRun, metRun, timer, stopVars, closePc,
                   sent, cpuArt,
                   panicked, tickVars, autoVars, collectorVars>>

\* collectMetrics (lines 286-304): its only exit is ctx.Done(); it is handed the
\* session id, not the session, and reads neither ps.collecting nor ps.cancel
MetricsExit(s) ==
    /\ metRun[s] > 0
    /\ CtxDone(s)
    /\ metRun' = [metRun EXCEPT ![s] = @ - 1]
    /\ UNCHANGED <<now, mu, sessions, ps, sessCancel, callerCtx, clientCtx, cpuProf,
                   startVars, cpuTask, memRun, ioRun, timer, stopVars, closePc,
                   sent, cpuArt,
                   panicked, tickVars, autoVars, collectorVars>>

\* StopProfiling has cleared ps.collecting of the session (line 132) and called
\* ps.cancel when it is set (lines 133-135)
Signalled(s) == startPc[s] # "idle" /\ ~ps[s].collecting

\* a dispatch counted when it is performed after the session was signalled
Late(n, s) == IF Signalled(s) THEN n + 1 ELSE n

\* sendProfileData (lines 327-342) and sendMetrics (lines 344-364): an error
\* only when httpClient.Post returns one; the response status is not looked at
SendDataResult(outcome) == IF outcome = "neterr" THEN "error" ELSE "ok"

\* lines 204, 277, 302: the result of sendProfileData or sendMetrics is
\* discarded and the loop goes back to its select: the goroutines of the task
\* that are in their loop after the dispatch
AfterDispatchStops(run, res) == IF res = "error" THEN run - 1 ELSE run
AfterDispatch(run, res) == run

\* collectMemoryProfile, lines 186-189: ticker.C is selected and ps.collecting
\* is still set, so the iteration goes on to the heap snapshot
MemTick(s) ==
    /\ ~panicked
    /\ memRun[s] > memBusy[s]
    /\ ps[s].collecting
    /\ memBusy' = [memBusy EXCEPT ![s] = @ + 1]
    /\ UNCHANGED <<clientVars, panicked, ioBusy, lateMem, lateIO, lateMet,
                   sendErr, ioPrev, ioSent, collectorVars>>

\* lines 191-204: pprof.WriteHeapProfile; a snapshot that was written is handed
\* to sendProfileData as an artifact of Type heap, a failed one is logged
MemDispatch(s, written, outcome) ==
    /\ ~panicked
    /\ memBusy[s] > 0
    /\ written /\ Signalled(s) => lateMem[s] < MaxLate
    /\ memBusy' = [memBusy EXCEPT ![s] = @ - 1]
    /\ lateMem' = [lateMem EXCEPT ![s] = IF written THEN Late(@, s) ELSE @]
    /\ sendErr' = IF written
                  THEN [sendErr EXCEPT ![s].mem = (SendDataResult(outcome) = "error")]
                  ELSE sendErr
    /\ memRun' = IF written
                 THEN [memRun EXCEPT ![s] = AfterDispatch(@, SendDataResult(outcome))]
                 ELSE memRun
    /\ UNCHANGED <<now, mu, sessions, ps, sessCancel, callerCtx, clientCtx, cpuProf,
                   startVars, cpuTask, ioRun, metRun, timer, stopVars, closePc,
                   sent, cpuArt, autoVars, panicked, ioBusy, lateIO, lateMet,
                   ioPrev, ioSent, collectorVars>>

\* collectIOProfile, lines 232-235: the same test of ps.collecting on a tick
IOTick(s) ==
    /\ ~panicked
    /\ ioRun[s] > ioBusy[s]
    /\ ps[s].collecting
    /\ ioBusy' = [ioBusy EXCEPT ![s] = @ + 1]
    /\ UNCHANGED <<clientVars, panicked, memBusy, lateMem, lateIO, lateMet,
                   sendErr, ioPrev, ioSent, collectorVars>>

\* lines 245-246: readDelta := ioCounters.ReadBytes - prevReadBytes, on uint64
DeltaSaturating(cur, prev) == IF Less64(cur, prev) THEN Zero64 ELSE Sub64(cur, prev)
Delta(cur, prev) == Sub64(cur, prev)

\* lines 245-257: the sample built from a reading and the baseline
IOSample(reading, prev) ==
    [read |-> reading.read, write |-> reading.write,
     readDelta |-> Delta(reading.read, prev.read),
     writeDelta |-> Delta(reading.write, prev.write)]

\* lines 237-277: proc.IOCounters(); a reading that failed is skipped
\* (continue); a reading that succeeded gives the deltas and the new baseline
\* (lines 245-249) and is dispatched as an artifact of Type io
IODispatch(s, reading, outcome) ==
    /\ ~panicked
    /\ ioBusy[s] > 0
    /\ reading # NoReading /\ Signalled(s) => lateIO[s] < MaxLate
    /\ reading # NoReading => Len(ioSent[s]) < MaxSamples
    /\ ioBusy' = [ioBusy EXCEPT ![s] = @ - 1]
    /\ lateIO' = [lateIO EXCEPT ![s] = IF reading # NoReading THEN Late(@, s) ELSE @]
    /\ IF reading = NoReading
       THEN UNCHANGED <<ioPrev, ioSent, sendErr, ioRun>>
       ELSE /\ ioPrev' = [ioPrev EXCEPT ![s] = reading]
            /\ ioSent' = [ioSent EXCEPT ![s] = Append(@, IOSample(reading, ioPrev[s]))]
            /\ sendErr' = [sendErr EXCEPT ![s].io = (SendDataResult(outcome) = "error")]
            /\ ioRun' = [ioRun EXCEPT ![s] = AfterDispatch(@, SendDataResult(outcome))]
    /\ UNCHANGED <<now, mu, sessions, ps, sessCancel, callerCtx, clientCtx, cpuProf,
                   startVars, cpuTask, memRun, metRun, timer, stopVars, closePc,
                   sent, cpuArt, autoVars, panicked, memBusy, lateMem, lateMet,
                   collectorVars>>

\* collectMetrics, lines 290-302: ticker.C is selected; the snapshot is built
\* and handed to sendMetrics, whatever the state of the session
MetricsTick(s, outcome) ==
    /\ ~panicked
    /\ metRun[s] > 0
    /\ Signalled(s) => lateMet[s] < MaxLate
    /\ lateMet' = [lateMet EXCEPT ![s] = Late(@, s)]
    /\ sendErr' = [sendErr EXCEPT ![s].met = (SendDataResult(outcome) = "error")]
    /\ metRun' = [metRun EXCEPT ![s] = AfterDispatch(@, SendDataResult(outcome))]
    /\ UNCHANGED <<now, mu, sessions, ps, sessCancel, callerCtx, clientCtx, cpuProf,
                   startVars, cpuTask, memRun, ioRun, timer, stopVars, closePc,
                   sent, cpuArt, autoVars, panicked, memBusy, ioBusy, lateMem,
                   lateIO, ioPrev, ioSent, collectorVars>>

\* --------------------------------------------------------- StopProfiling
\* the ids the application holds: those its StartProfiling calls returned
ReturnedIds == {ps[s].id : s \in {r \in PS : startPc[r] = "done"}}

\* the application invokes StopProfiling(id), with an id it was given or with
\* a string that is no session's id
StopBegin(p, id) ==
    /\ p \in ManualStops
    /\ id \in ReturnedIds \cup {UnknownId}
    /\ stopPc[p] = "idle"
    /\ stopPc' = [stopPc EXCEPT ![p] = "lock"]
    /\ stopArg' = [stopArg EXCEPT ![p] = id]
    /\ UNCHANGED <<now, mu, sessions, ps, sessCancel, callerCtx, clientCtx, cpuProf,
                   startVars, taskVars, timer, stopFound, stopRes, closePc, sent, cpuArt,
                   panicked, tickVars, autoVars, collectorVars>>

\* lines 113-115: the timer armed by StartProfiling fires and invokes
\* StopProfiling with the id captured by the closure
TimerFire(s) ==
    /\ timer[s] = "armed"
    /\ timer' = [timer EXCEPT ![s] = "fired"]
    /\ stopPc' = [stopPc EXCEPT ![<<"timer", s>>] = "lock"]
    /\ stopArg' = [stopArg EXCEPT ![<<"timer", s>>] = ps[s].id]
    /\ UNCHANGED <<now, mu, sessions, ps, sessCancel, callerCtx, clientCtx, cpuProf,
                   startVars, taskVars, stopFound, stopRes, closePc, sent, cpuArt,
                   panicked, tickVars, autoVars, collectorVars>>

\* where a StopProfiling invocation returns to: the call made by Close's loop
\* resumes the loop
ReturnTo(p, pc) == IF p = CloseStop THEN "iter" ELSE pc

\* line 127: the error returned for an id that is not in the map
NotFoundAsNil == "ok"
NotFound == "notfound"

\* line 129: delete(c.sessions, sessionID)
DeregisterKeeps(reg, id) == reg
Deregister(reg, id) == [reg EXCEPT ![id] = NoSession]

\* lines 123-130: under c.mu, look the id up; absent: return "session not
\* found"; present: delete it from the map
StopLock(p) ==
    /\ stopPc[p] = "lock"
    /\ mu = "free"
    /\ IF sessions[stopArg[p]] = NoSession
       THEN /\ stopRes' = [stopRes EXCEPT ![p] = NotFound]
            /\ stopPc' = [stopPc EXCEPT ![p] = "done"]
            /\ stopArg' = [stopArg EXCEPT ![p] = 0]
            /\ closePc' = ReturnTo(p, closePc)
            /\ UNCHANGED <<sessions, stopFound>>
       ELSE /\ stopFound' = [stopFound EXCEPT ![p] = sessions[stopArg[p]]]
            /\ sessions' = Deregister(sessions, stopArg[p])
            /\ stopPc' = [stopPc EXCEPT ![p] = "signal"]
            /\ UNCHANGED <<stopRes, stopArg, closePc>>
    /\ UNCHANGED <<now, mu, ps, sessCancel, callerCtx, clientCtx, cpuProf,
                   startVars, taskVars, timer, sent, cpuArt,
                   panicked, tickVars, autoVars, collectorVars>>

\* lines 132-140: ps.collecting = false; ps.cancel() when it is set; when
\* ps.cpuFile is set, pprof.StopCPUProfile(), which stops the process-wide
\* profiler whichever session started it
StopSignal(p) ==
    /\ stopPc[p] = "signal"
    /\ LET s == stopFound[p] IN
       /\ ps' = [ps EXCEPT ![s].collecting = FALSE]
       /\ sessCancel' = [sessCancel EXCEPT ![s] = @ \/ ps[s].cancel]
       /\ cpuProf' = IF ps[s].cpuFile THEN NoSession ELSE cpuProf
    /\ stopPc' = [stopPc EXCEPT ![p] = "send"]
    /\ UNCHANGED <<now, mu, sessions, callerCtx, clientCtx,
                   startVars, taskVars, timer, stopArg, stopFound, stopRes,
                   closePc, sent, cpuArt,
                   panicked, tickVars, autoVars, collectorVars>>

\* the collection endpoint stored the record: it answered 200 or 201
Accepted(outcome) == outcome \in {"200", "201"}

\* sendSession (lines 307-325): nil only for a response with status 200 or 201
SendResultAnyResponse(outcome) == IF outcome = "neterr" THEN "error" ELSE "ok"
SendResult(outcome) ==
    IF outcome = "neterr" THEN "error"
    ELSE IF outcome # "200" /\ outcome # "201" THEN "error"
    ELSE "ok"

\* the session with EndTime and Duration set (lines 142-143); Sub is taken on
\* the readings of the process's monotonic clock
FinishedSwapped(session, t) ==
    [session EXCEPT !.end = t, !.duration = session.start - t]
Finished(session, t) == [session EXCEPT !.end = t, !.duration = t - session.start]

\* lines 142-146: EndTime, Duration, then the POST of the session record, whose
\* result is StopProfiling's
StopSend(p, outcome) ==
    /\ stopPc[p] = "send"
    /\ LET s == stopFound[p] IN
       /\ ps' = [ps EXCEPT ![s] = Finished(ps[s], now)]
       /\ sent' = [sent EXCEPT ![s] = Append(@,
                     [id |-> ps[s].id, start |-> ps'[s].start, end |-> ps'[s].end,
                      duration |-> ps'[s].duration, by |-> p,
                      accepted |-> Accepted(outcome)])]
    /\ stopRes' = [stopRes EXCEPT ![p] = SendResult(outcome)]
    /\ stopPc' = [stopPc EXCEPT ![p] = "done"]
    /\ stopArg' = [stopArg EXCEPT ![p] = 0]
    /\ stopFound' = [stopFound EXCEPT ![p] = NoSession]
    /\ closePc' = ReturnTo(p, closePc)
    /\ UNCHANGED <<now, mu, sessions, sessCancel, callerCtx, clientCtx, cpuProf,
                   startVars, taskVars, timer, cpuArt,
                   panicked, tickVars, autoVars, collectorVars>>

StopStep(p) ==
    \/ StopLock(p)
    \/ StopSignal(p)
    \/ \E outcome \in SendOutcomes : StopSend(p, outcome)

\* ----------------------------------------------------------------- Close
\* line 394: c.cancel()
CloseBegin ==
    /\ closePc = "idle"
    /\ clientCtx' = TRUE
    /\ closePc' = "lock"
    /\ UNCHANGED <<now, mu, sessions, ps, sessCancel, callerCtx, cpuProf,
                   startVars, taskVars, timer, stopVars, sent, cpuArt,
                   panicked, tickVars, autoVars, collectorVars>>

\* line 396: c.mu.Lock()
CloseLock ==
    /\ closePc = "lock"
    /\ mu = "free"
    /\ mu' = "close"
    /\ closePc' = "iter"
    /\ UNCHANGED <<now, sessions, ps, sessCancel, callerCtx, clientCtx, cpuProf,
                   startVars, taskVars, timer, stopVars, sent, cpuArt,
                   panicked, tickVars, autoVars, collectorVars>>

\* lines 397-402: the range over c.sessions, with c.mu still held: the next
\* registered id is passed to StopProfiling; with none left, c.mu.Unlock() and
\* return
CloseIter ==
    /\ closePc = "iter"
    /\ IF \A i \in Ids : sessions[i] = NoSession
       THEN /\ mu' = "free"
            /\ closePc' = "done"
            /\ UNCHANGED <<stopPc, stopArg>>
       ELSE /\ \E i \in Ids :
                 /\ sessions[i] # NoSession
                 /\ stopArg' = [stopArg EXCEPT ![CloseStop] = i]
            /\ stopPc' = [stopPc EXCEPT ![CloseStop] = "lock"]
            /\ closePc' = "stopping"
            /\ UNCHANGED mu
    /\ UNCHANGED <<now, sessions, ps, sessCancel, callerCtx, clientCtx, cpuProf,
                   startVars, taskVars, timer, stopFound, stopRes, sent, cpuArt,
                   panicked, tickVars, autoVars, collectorVars>>

CloseStep == CloseLock \/ CloseIter

Next ==
    \/ Tick
    \/ CancelCallerCtx
    \/ \E s \in PS, cfg \in StartConfigs : StartBegin(s, cfg)
    \/ \E s \in PS : StartStep(s)
    \/ \E s \in PS : CpuTaskRun(s)
    \/ \E s \in PS : MemExit(s)
    \/ \E s \in PS : IOExit(s)
    \/ \E s \in PS : MetricsExit(s)
    \/ \E p \in ManualStops, id \in Keys : StopBegin(p, id)
    \/ \E s \in PS : TimerFire(s)
    \/ \E p \in StopProcs : StopStep(p)
    \/ CloseBegin
    \/ CloseStep

Spec == Init /\ [][Next]_vars

\* Scheduling: a goroutine that can run is eventually run, an armed timer
\* fires, a ticker ticks, and httpClient.Post returns (Timeout: 30s, line 50).
\* Nothing obliges the application to make a call, to cancel its context, or
\* the clock to show a new reading.
Fairness ==
    /\ \A s \in PS : WF_vars(StartStep(s))
    /\ \A s \in PS : WF_vars(CpuTaskRun(s))
    /\ \A s \in PS : WF_vars(MemExit(s))
    /\ \A s \in PS : WF_vars(IOExit(s))
    /\ \A s \in PS : WF_vars(MetricsExit(s))
    /\ \A s \in PS : WF_vars(TimerFire(s))
    /\ \A p \in StopProcs : WF_vars(StopStep(p))
    /\ WF_vars(CloseStep)

FairSpec == Spec /\ Fairness

\* ------------------------------------------------------------ autoProfile
\* lines 374-379: the configuration autoProfile passes to StartProfiling
AutoConfig == [types |-> <<"cpu", "memory">>, metrics |-> TRUE, interval |-> 5,
               timed |-> TRUE]

\* lines 370-380: the select of autoProfile takes the ticker.C case and calls
\* c.StartProfiling(c.ctx, config).  A select with several ready cases picks
\* one of them at random, so a pending tick can be taken with c.ctx done.
AutoTick(s) ==
    /\ autoPc = "select"
    /\ startPc[s] = "idle"
    /\ \A t \in PS : t < s => startPc[t] # "idle"
    /\ autoPc' = "call"
    /\ startCtx' = [startCtx EXCEPT ![s] = "client"]
    /\ startPc' = [startPc EXCEPT ![s] = "register"]
    /\ startCfg' = [startCfg EXCEPT ![s] = AutoConfig]
    /\ ps' = [ps EXCEPT ![s].id = now, ![s].start = now, ![s].collecting = TRUE]
    /\ UNCHANGED <<now, mu, sessions, sessCancel, callerCtx, clientCtx, cpuProf,
                   taskVars, timer, stopVars, closePc, sent, cpuArt,
                   panicked, tickVars, collectorVars>>

\* lines 380-385: StartProfiling has returned to autoProfile, which logs the
\* outcome and goes back to its select
AutoReturn ==
    /\ autoPc = "call"
    /\ \A s \in PS : startCtx[s] = "client" => startPc[s] = "done"
    /\ autoPc' = "select"
    /\ UNCHANGED <<now, mu, sessions, ps, sessCancel, callerCtx, clientCtx, cpuProf,
                   startVars, taskVars, timer, stopVars, closePc, sent, cpuArt,
                   startCtx, panicked, tickVars, collectorVars>>

\* lines 371-372: the select takes the c.ctx.Done() case; autoProfile returns
AutoDone ==
    /\ autoPc = "select"
    /\ clientCtx
    /\ autoPc' = "done"
    /\ UNCHANGED <<now, mu, sessions, ps, sessCancel, callerCtx, clientCtx, cpuProf,
                   startVars, taskVars, timer, stopVars, closePc, sent, cpuArt,
                   startCtx, panicked, tickVars, collectorVars>>

\* NewClient with config.AutoProfile set and a positive config.ProfileInterval:
\* the autoProfile goroutine is at its select
AutoInit == ClientFields /\ autoPc = "select" /\ CollectorIdle /\ StoreEmpty

AutoNext ==
    \/ Tick
    \/ \E s \in PS : AutoTick(s)
    \/ AutoReturn
    \/ AutoDone
    \/ \E s \in PS : StartStep(s)
    \/ \E s \in PS : CpuTaskRun(s)
    \/ \E s \in PS : MemExit(s)
    \/ \E s \in PS : MetricsExit(s)
    \/ \E s \in PS : TimerFire(s)
    \/ \E p \in StopProcs : StopStep(p)
    \/ CloseBegin
    \/ CloseStep

AutoSpec == AutoInit /\ [][AutoNext]_vars

\* ------------------------------------------------- the periodic collectors
\* The collectors at the grain of their ticks, for sessions that are stopped
\* by a call of the application.  The ProfilingConfig values: a list naming
\* memory and heap, with metrics; metrics with MetricsInterval left at zero
TaskConfigs ==
    { [types |-> <<"memory", "heap", "io">>, metrics |-> TRUE, interval |-> 1,
       timed |-> FALSE],
      [types |-> <<>>, metrics |-> TRUE, interval |-> 0, timed |-> FALSE] }

\* the sessions started in this specification
TaskPS == 1..MaxTaskSessions

TaskNext ==
    \/ Tick
    \/ CancelCallerCtx
    \/ \E s \in TaskPS, cfg \in TaskConfigs : StartBegin(s, cfg)
    \/ \E s \in TaskPS : StartStep(s)
    \/ \E s \in TaskPS : MemTick(s)
    \/ \E s \in TaskPS, written \in BOOLEAN, outcome \in SendOutcomes :
          MemDispatch(s, written, outcome)
    \/ \E s \in TaskPS : MemExit(s)
    \/ \E s \in TaskPS : IOTick(s)
    \/ \E s \in TaskPS, reading \in TaskReadings, outcome \in SendOutcomes :
          IODispatch(s, reading, outcome)
    \/ \E s \in TaskPS : IOExit(s)
    \/ \E s \in TaskPS, outcome \in SendOutcomes : MetricsTick(s, outcome)
    \/ \E s \in TaskPS : MetricsExit(s)
    \/ \E p \in ManualStops, id \in Keys : StopBegin(p, id)
    \/ \E p \in StopProcs : StopStep(p)

TaskSpec == Init /\ [][TaskNext]_vars

\* ------------------------------------------------------ the IO task alone
\* a session whose only collector is collectIOProfile
IOConfig == [types |-> <<"io">>, metrics |-> FALSE, interval |-> 0, timed |-> FALSE]

IONext ==
    \/ \E s \in TaskPS : StartBegin(s, IOConfig)
    \/ \E s \in TaskPS : StartStep(s)
    \/ \E s \in TaskPS : IOTick(s)
    \/ \E s \in TaskPS, reading \in IOReadings \cup {NoReading}, outcome \in SendOutcomes :
          IODispatch(s, reading, outcome)
    \/ \E s \in TaskPS : IOExit(s)
    \/ \E p \in ManualStops, id \in Keys : StopBegin(p, id)
    \/ \E p \in StopProcs : StopStep(p)

IOSpec == Init /\ [][IONext]_vars

\* ------------------------------------------------------------ FileStorage
\* the method of FileStorage a request runs
StoreOp(req) ==
    IF req.op = "handleCreateSession" THEN "SaveSession"
    ELSE IF req.op = "handleDeleteSession" THEN "DeleteSession"
    ELSE req.op

Writes == {"SaveSession", "DeleteSession", "SaveProfileData", "SaveMetrics"}

\* the first statement of each method after it took fs.mu
FirstStep(op) ==
    CASE op = "SaveSession" -> "saveSession"
      [] op = "DeleteSession" -> "delSession"
      [] op = "SaveProfileData" -> "payload"
      [] op = "SaveMetrics" -> "append"
      [] op = "GetSession" -> "getSession"
      [] op = "ListSessions" -> "listSessions"
      [] op = "GetProfileData" -> "getProfiles"
      [] op = "GetMetrics" -> "getMetrics"

\* the positions of a call between fs.mu.Lock() and the deferred Unlock()
WriteSteps == {"saveSession", "delSession", "delProfiles", "delMetrics",
               "payload", "meta", "append"}
\* the positions of a call between fs.mu.RLock() and the deferred RUnlock()
ReadSteps == {"getSession", "listSessions", "getProfiles", "getMetrics"}

\* a goroutine calls a method of the store, or the server hands a request to
\* its handler
CallBegin(c, req) ==
    /\ hPc[c] = "idle"
    /\ \A d \in Callers : d < c => hPc[d] # "idle"
    /\ hReq' = [hReq EXCEPT ![c] = req]
    /\ hPc' = [hPc EXCEPT ![c] =
                 IF req.op = "handleCreateSession" THEN "regLock"
                 ELSE IF req.op = "handleHealth" THEN "count"
                 ELSE IF StoreOp(req) \in Writes THEN "lock" ELSE "rlock"]
    /\ UNCHANGED <<clientVars, panicked, tickVars, colMu, colSessions, storeVars,
                   hRes>>

\* sync.RWMutex: Lock waits until no writer and no reader holds the mutex,
\* RLock until no writer holds it
CanRLockAlways == TRUE
CanLock == fsMu.w = NoCaller /\ fsMu.r = {}
CanRLock == fsMu.w = NoCaller

\* fs.mu.Lock() at the head of SaveSession, DeleteSession, SaveProfileData and
\* SaveMetrics
StoreLock(c) ==
    /\ hPc[c] = "lock"
    /\ CanLock
    /\ fsMu' = [fsMu EXCEPT !.w = c]
    /\ hPc' = [hPc EXCEPT ![c] = FirstStep(StoreOp(hReq[c]))]
    /\ UNCHANGED <<clientVars, panicked, tickVars, colMu, colSessions,
                   fsSessions, fsProfiles, fsMetrics, hReq, hRes>>

\* fs.mu.RLock() at the head of GetSession, GetProfileData and GetMetrics
StoreRLock(c) ==
    /\ hPc[c] = "rlock"
    /\ CanRLock
    /\ fsMu' = [fsMu EXCEPT !.r = @ \cup {c}]
    /\ hPc' = [hPc EXCEPT ![c] = FirstStep(StoreOp(hReq[c]))]
    /\ UNCHANGED <<clientVars, panicked, tickVars, colMu, colSessions,
                   fsSessions, fsProfiles, fsMetrics, hReq, hRes>>

\* where a call goes on when its store method has returned: handleDeleteSession
\* goes on to the map when DeleteSession succeeded (collector.go, lines 140-148)
AfterStoreAnyStatus(req, status) ==
    IF req.op = "handleDeleteSession" THEN "unregLock" ELSE "done"
AfterStore(req, status) ==
    IF req.op = "handleDeleteSession" /\ status = "ok" THEN "unregLock" ELSE "done"

\* the return of a store method: the deferred Unlock / RUnlock, and the result
StoreReturn(c, res) ==
    /\ fsMu' = [w |-> IF fsMu.w = c THEN NoCaller ELSE fsMu.w, r |-> fsMu.r \ {c}]
    /\ hRes' = [hRes EXCEPT ![c] = res]
    /\ hPc' = [hPc EXCEPT ![c] = AfterStore(hReq[c], res.status)]

Status(s) == [NoResult EXCEPT !.status = s]

\* the JSON of a session record (line 57), and its parse (line 83)
StoredSession(id) == [id |-> id, application_id |-> AppOf(id)]

\* what an entry of sessions/ can be besides a session record: a file that
\* os.ReadFile cannot read, bytes that are not the JSON of a session, a
\* directory
Unreadable == [id |-> 0, application_id |-> "unreadable"]
Garbled == [id |-> 0, application_id |-> "garbled"]
Directory == [id |-> 0, application_id |-> "directory"]

\* lines 73-80 and 109-113: os.ReadFile returns the bytes of the file
Readable(file) == file # NoFile /\ file # <<Unreadable>> /\ file # <<Directory>>
\* lines 82-85 and 115-119: json.Unmarshal into a types.ProfileSession succeeds
ParsesSession(file) == file # <<Garbled>>

\* SaveSession, lines 51-66: sessions/{id}.json is written whole
SaveSessionWrite(c, ok) ==
    /\ hPc[c] = "saveSession"
    /\ fsSessions' = IF ok THEN [fsSessions EXCEPT ![hReq[c].id] =
                                    <<StoredSession(hReq[c].id)>>]
                     ELSE fsSessions
    /\ StoreReturn(c, Status(IF ok THEN "ok" ELSE "error"))
    /\ UNCHANGED <<clientVars, panicked, tickVars, colMu, colSessions,
                   fsProfiles, fsMetrics, hReq>>

\* GetSession, lines 73-87
GetSessionOf(files, id) ==
    IF files[id] = NoFile THEN Status("notfound")
    ELSE IF ~Readable(files[id]) \/ ~ParsesSession(files[id]) THEN Status("error")
    ELSE [Status("ok") EXCEPT !.sess = files[id]]

GetSessionRead(c) ==
    /\ hPc[c] = "getSession"
    /\ StoreReturn(c, GetSessionOf(fsSessions, hReq[c].id))
    /\ UNCHANGED <<clientVars, panicked, tickVars, colMu, colSessions,
                   fsSessions, fsProfiles, fsMetrics, hReq>>

\* line 105: entry.IsDir() || filepath.Ext(entry.Name()) != ".json"
SkippedByName(files, e) == files[e] = <<Directory>> \/ e \notin SIds

\* line 121: the filter on the application id
MatchesAll(app, session) == TRUE
Matches(app, session) == app = "" \/ session.application_id = app

\* lines 104-124: the loop over the entries from entry e on
RECURSIVE ListFrom(_, _, _)
ListFrom(files, app, e) ==
    IF e \notin SessionEntries THEN <<>>
    ELSE LET rest == ListFrom(files, app, e + 1)
         IN IF files[e] = NoFile \/ SkippedByName(files, e) THEN rest
            ELSE IF ~Readable(files[e]) THEN rest
            ELSE IF ~ParsesSession(files[e]) THEN rest
            ELSE IF Matches(app, files[e][1]) THEN files[e] \o rest
            ELSE rest

\* ListSessions, lines 94-126
ListSessionsOf(files, app) == [Status("ok") EXCEPT !.sess = ListFrom(files, app, 1)]

ListSessionsRead(c) ==
    /\ hPc[c] = "listSessions"
    /\ StoreReturn(c, ListSessionsOf(fsSessions, hReq[c].app))
    /\ UNCHANGED <<clientVars, panicked, tickVars, colMu, colSessions,
                   fsSessions, fsProfiles, fsMetrics, hReq>>

\* os.Remove of a file that may be absent, os.RemoveAll of a directory
RemoveAllKeeps(tree, id, none) == tree
RemoveAll(tree, id, none) == [tree EXCEPT ![id] = none]

\* DeleteSession, lines 134-137: the session file; a file that is not there is
\* no error
DelSessionFile(c, ok) ==
    /\ hPc[c] = "delSession"
    /\ IF ok
       THEN /\ fsSessions' = RemoveAll(fsSessions, hReq[c].id, NoFile)
            /\ hPc' = [hPc EXCEPT ![c] = "delProfiles"]
            /\ UNCHANGED <<fsMu, hRes>>
       ELSE /\ StoreReturn(c, Status("error"))
            /\ UNCHANGED fsSessions
    /\ UNCHANGED <<clientVars, panicked, tickVars, colMu, colSessions,
                   fsProfiles, fsMetrics, hReq>>

\* lines 140-143: the profile directory
DelProfileDir(c, ok) ==
    /\ hPc[c] = "delProfiles"
    /\ IF ok
       THEN /\ fsProfiles' = RemoveAll(fsProfiles, hReq[c].id, NoDir)
            /\ hPc' = [hPc EXCEPT ![c] = "delMetrics"]
            /\ UNCHANGED <<fsMu, hRes>>
       ELSE /\ StoreReturn(c, Status("error"))
            /\ UNCHANGED fsProfiles
    /\ UNCHANGED <<clientVars, panicked, tickVars, colMu, colSessions,
                   fsSessions, fsMetrics, hReq>>

\* lines 146-151: the metrics directory, then return nil
DelMetricsDir(c, ok) ==
    /\ hPc[c] = "delMetrics"
    /\ fsMetrics' = IF ok THEN RemoveAll(fsMetrics, hReq[c].id, NoMetrics)
                    ELSE fsMetrics
    /\ StoreReturn(c, Status(IF ok THEN "ok" ELSE "error"))
    /\ UNCHANGED <<clientVars, panicked, tickVars, colMu, colSessions,
                   fsSessions, fsProfiles, hReq>>

\* SaveProfileData, lines 158-170: the directory, then the payload file
WritePayload(c, ok) ==
    /\ hPc[c] = "payload"
    /\ LET a == hReq[c].art IN
       IF ok
       THEN /\ fsProfiles' = [fsProfiles EXCEPT ![a.session_id].dir = TRUE,
                                ![a.session_id].pprof[FileName(a)] = <<a.data>>]
            /\ hPc' = [hPc EXCEPT ![c] = "meta"]
            /\ UNCHANGED <<fsMu, hRes>>
       ELSE /\ StoreReturn(c, Status("error"))
            /\ UNCHANGED fsProfiles
    /\ UNCHANGED <<clientVars, panicked, tickVars, colMu, colSessions,
                   fsSessions, fsMetrics, hReq>>

\* lines 176-186: the sidecar; json keeps an int64 and the nanoseconds of a
\* time.Time as they are
SidecarOf(a) ==
    [session_id |-> a.session_id, type |-> a.type, timestamp |-> a.timestamp,
     sample_count |-> a.sample_count, file |-> FileName(a)]

\* lines 173-195: the sidecar file, then return nil
WriteMeta(c, ok) ==
    /\ hPc[c] = "meta"
    /\ LET a == hReq[c].art IN
       fsProfiles' = IF ok
                     THEN [fsProfiles EXCEPT
                             ![a.session_id].meta[FileName(a)] = <<SidecarOf(a)>>]
                     ELSE fsProfiles
    /\ StoreReturn(c, Status(IF ok THEN "ok" ELSE "error"))
    /\ UNCHANGED <<clientVars, panicked, tickVars, colMu, colSessions,
                   fsSessions, fsMetrics, hReq>>

\* lines 224-247: json.Unmarshal into map[string]interface{} decodes every
\* number as a float64, the nearest value with a 53-bit significand (ties to
\* the even significand); int64(...) of it is what GetProfileData returns
Float64(n) ==
    IF n[1] < Exact53 \/ n[2] % 2 = 0 THEN n
    ELSE IF ((n[2] - 1) \div 2) % 2 = 0 THEN <<n[1], n[2] - 1>>
    ELSE IF n[2] + 1 = LimbBase THEN <<n[1] + 1, 0>>
    ELSE <<n[1], n[2] + 1>>

\* lines 241-248: the artifact rebuilt from a sidecar and its payload
ArtifactOf(sessionID, meta, payload) ==
    [session_id |-> sessionID, type |-> meta.type, timestamp |-> meta.timestamp,
     data |-> payload, sample_count |-> Float64(meta.sample_count)]

\* the bytes of a sidecar that are not JSON (line 225), and the sidecar
\* {"file": ...} that names a payload and has no other key
Corrupt == [session_id |-> 0, type |-> "", timestamp |-> <<0, 0, 0>>,
            sample_count |-> <<0, 0>>, file |-> <<"", 0>>]
FileOnly == [session_id |-> 0, type |-> "", timestamp |-> <<0, 0, 0>>,
             sample_count |-> <<0, 0>>, file |-> <<"cpu", 1>>]

\* lines 224-227: json.Unmarshal of the sidecar succeeds
ParsesMeta(meta) == meta # Corrupt
\* lines 241-247: meta["timestamp"].(string), meta["type"].(string) and
\* meta["sample_count"].(float64) hold: the keys are there with these types
HasFields(meta) == meta # FileOnly
\* the bytes os.ReadFile returns for a file
Content(file) == IF file = NoFile THEN <<>> ELSE file[1]

\* lines 218-239: the entry is a sidecar that is read and parses, and the
\* payload its "file" names is read
HasSidecar(dir, n) == dir.meta[n] # NoFile /\ ParsesMeta(dir.meta[n][1])
HasPayloadAlways(dir, n) == TRUE
HasPayload(dir, n) == dir.pprof[dir.meta[n][1].file] # NoFile
Complete(dir, n) == HasSidecar(dir, n) /\ HasPayload(dir, n)

\* lines 212-259: the loop over the entries: an entry that is not complete is
\* passed over (continue)
RECURSIVE ReadSidecars(_, _, _)
ReadSidecars(dir, sessionID, names) ==
    IF names = <<>> THEN <<>>
    ELSE LET n == Head(names)
             rest == ReadSidecars(dir, sessionID, Tail(names))
         IN IF ~Complete(dir, n) THEN rest
            ELSE <<ArtifactOf(sessionID, dir.meta[n][1],
                              Content(dir.pprof[dir.meta[n][1].file]))>> \o rest

\* lines 241-247: an unchecked type assertion panics in the loop
SidecarPanics(dir) ==
    dir.dir /\ \E n \in Names : Complete(dir, n) /\ ~HasFields(dir.meta[n][1])

\* GetProfileData, lines 202-261
GetProfileDataOf(dirs, id) ==
    IF ~dirs[id].dir THEN <<>> ELSE ReadSidecars(dirs[id], id, NameOrder)

\* the deferred RUnlock runs when the call returns and when it panics
GetProfilesRead(c) ==
    /\ hPc[c] = "getProfiles"
    /\ IF SidecarPanics(fsProfiles[hReq[c].id])
       THEN StoreReturn(c, Status("panic"))
       ELSE StoreReturn(c, [Status("ok") EXCEPT
                               !.arts = GetProfileDataOf(fsProfiles, hReq[c].id)])
    /\ UNCHANGED <<clientVars, panicked, tickVars, colMu, colSessions,
                   fsSessions, fsProfiles, fsMetrics, hReq>>

\* line 275: os.O_APPEND: the line goes after those the file holds
AppendLineTruncates(lines, line) == <<line>>
AppendLine(lines, line) == Append(lines, line)

\* SaveMetrics, lines 268-290: the directory and the file are created before
\* the snapshot is marshalled; a snapshot json.Marshal rejects is not written
AppendMetrics(c, ok) ==
    /\ hPc[c] = "append"
    /\ LET id == hReq[c].id
           m == hReq[c].m
       IN IF ~ok
          THEN /\ UNCHANGED fsMetrics
               /\ StoreReturn(c, Status("error"))
          ELSE IF MarshalFails(m)
          THEN /\ fsMetrics' = [fsMetrics EXCEPT ![id].dir = TRUE]
               /\ StoreReturn(c, Status("error"))
          ELSE /\ fsMetrics' = [fsMetrics EXCEPT ![id].dir = TRUE,
                                  ![id].lines = AppendLine(@, MarshalLine(m))]
               /\ StoreReturn(c, Status("ok"))
    /\ UNCHANGED <<clientVars, panicked, tickVars, colMu, colSessions,
                   fsSessions, fsProfiles, hReq>>

\* lines 319-334: a line is kept when, trimmed, it is not empty and parses
ParsesAnyLine(line) == TRUE
Parses(line) == line.kind = "json"

\* lines 317-335: the scanner's loop; it ends at the end of the file or at a
\* line that does not fit the scanner's buffer
RECURSIVE ScanLines(_)
ScanLines(lines) ==
    IF lines = <<>> THEN <<>>
    ELSE IF Head(lines).kind = "toolong" THEN <<>>
    ELSE IF Parses(Head(lines)) THEN <<Unmarshal(Head(lines))>> \o ScanLines(Tail(lines))
    ELSE ScanLines(Tail(lines))

\* lines 337-339: scanner.Err() is bufio.ErrTooLong after such a line
ScanErr(lines) == \E i \in 1..Len(lines) : lines[i].kind = "toolong"

\* GetMetrics, lines 298-341
GetMetricsOf(files, id) ==
    IF ~files[id].dir THEN Status("ok")
    ELSE IF ScanErr(files[id].lines) THEN Status("error")
    ELSE [Status("ok") EXCEPT !.mets = ScanLines(files[id].lines)]

GetMetricsRead(c) ==
    /\ hPc[c] = "getMetrics"
    /\ StoreReturn(c, GetMetricsOf(fsMetrics, hReq[c].id))
    /\ UNCHANGED <<clientVars, panicked, tickVars, colMu, colSessions,
                   fsSessions, fsProfiles, fsMetrics, hReq>>

\* the session whose metrics file is found when the store is opened
LeftoverId == 2

\* NewFileStorage on a base directory that earlier runs have written
StoreInit ==
    /\ ClientInit
    /\ CollectorIdle
    /\ fsSessions = [e \in SessionEntries |-> NoFile]
    /\ fsProfiles = [i \in SIds |-> NoDir]
    /\ fsMetrics \in {[i \in SIds |-> IF i = LeftoverId
                                     THEN [dir |-> TRUE, lines |-> f]
                                     ELSE NoMetrics] : f \in LeftoverMetrics}

\* the store under concurrent callers of its methods; every write to the disk
\* may fail
StoreNext ==
    \/ \E c \in Callers, req \in StoreRequests : CallBegin(c, req)
    \/ \E c \in Callers : StoreLock(c)
    \/ \E c \in Callers : StoreRLock(c)
    \/ \E c \in Callers, ok \in BOOLEAN : SaveSessionWrite(c, ok)
    \/ \E c \in Callers : GetSessionRead(c)
    \/ \E c \in Callers, ok \in BOOLEAN : DelSessionFile(c, ok)
    \/ \E c \in Callers, ok \in BOOLEAN : DelProfileDir(c, ok)
    \/ \E c \in Callers, ok \in BOOLEAN : DelMetricsDir(c, ok)
    \/ \E c \in Callers, ok \in BOOLEAN : WritePayload(c, ok)
    \/ \E c \in Callers, ok \in BOOLEAN : WriteMeta(c, ok)
    \/ \E c \in Callers : GetProfilesRead(c)
    \/ \E c \in Callers, ok \in BOOLEAN : AppendMetrics(c, ok)
    \/ \E c \in Callers : GetMetricsRead(c)

StoreSpec == StoreInit /\ [][StoreNext]_vars

\* ------------------------------------------------- the profile directories
\* profile directories found in the base directory when the store is opened:
\* a payload without a sidecar (cpu_1), a sidecar whose payload is missing
\* (cpu_5400), a sidecar that is not JSON next to its payload (cpu_9000) and a
\* complete pair (heap_1); and the same with a sidecar for cpu_1 that has the
\* "file" key only
LeftoverPair == [session_id |-> LeftoverId, type |-> "heap", timestamp |-> <<1, 0, 0>>,
                 data |-> <<8>>, sample_count |-> <<0, 2>>]
LeftoverLost == [session_id |-> LeftoverId, type |-> "cpu", timestamp |-> <<5400, 0, 0>>,
                 data |-> <<3>>, sample_count |-> <<0, 1>>]
LeftoverDefects ==
    [dir |-> TRUE,
     pprof |-> [n \in Names |->
                  IF n = <<"cpu", 1>> THEN <<(<<9>>)>>
                  ELSE IF n = <<"cpu", 9000>> THEN <<(<<6>>)>>
                  ELSE IF n = FileName(LeftoverPair) THEN <<LeftoverPair.data>>
                  ELSE NoFile],
     meta |-> [n \in Names |->
                  IF n = FileName(LeftoverLost) THEN <<SidecarOf(LeftoverLost)>>
                  ELSE IF n = <<"cpu", 9000>> THEN <<Corrupt>>
                  ELSE IF n = FileName(LeftoverPair) THEN <<SidecarOf(LeftoverPair)>>
                  ELSE NoFile]]
LeftoverProfiles ==
    { LeftoverDefects,
      [LeftoverDefects EXCEPT !.meta[<<"cpu", 1>>] = <<FileOnly>>] }

ProfileRequests ==
    {Request("GetProfileData", id, NoArtifact, NoSnapshot) : id \in SIds}
    \cup {Request("SaveProfileData", a.session_id, a, NoSnapshot) : a \in ZoneArtifacts}

ProfileInit ==
    /\ ClientInit
    /\ CollectorIdle
    /\ fsSessions = [e \in SessionEntries |-> NoFile]
    /\ fsMetrics = [i \in SIds |-> NoMetrics]
    /\ fsProfiles \in {[i \in SIds |-> IF i = LeftoverId THEN d ELSE NoDir] :
                         d \in LeftoverProfiles}

\* SaveProfileData and GetProfileData under concurrent callers; every write to
\* the disk may fail
ProfileNext ==
    \/ \E c \in Callers, req \in ProfileRequests : CallBegin(c, req)
    \/ \E c \in Callers : StoreLock(c)
    \/ \E c \in Callers : StoreRLock(c)
    \/ \E c \in Callers, ok \in BOOLEAN : WritePayload(c, ok)
    \/ \E c \in Callers, ok \in BOOLEAN : WriteMeta(c, ok)
    \/ \E c \in Callers : GetProfilesRead(c)

ProfileSpec == ProfileInit /\ [][ProfileNext]_vars

\* ------------------------------------------------- the sessions directory
\* what the file {LeftoverId}.json is when the store is opened
LeftoverSessions == {NoFile, <<Garbled>>, <<Unreadable>>, <<StoredSession(LeftoverId)>>}

ListRequests ==
    {[Request("ListSessions", 0, NoArtifact, NoSnapshot) EXCEPT !.app = app] :
        app \in Apps \cup {""}}
    \cup {Request("SaveSession", id, NoArtifact, NoSnapshot) : id \in SIds}

\* a sessions directory that holds a sub-directory, a file without the .json
\* extension whose content is a session record, and a leftover file
ListInit ==
    /\ ClientInit
    /\ CollectorIdle
    /\ fsProfiles = [i \in SIds |-> NoDir]
    /\ fsMetrics = [i \in SIds |-> NoMetrics]
    /\ fsSessions \in {[e \in SessionEntries |->
                          IF e = SubdirEntry THEN <<Directory>>
                          ELSE IF e = PlainEntry THEN <<StoredSession(1)>>
                          ELSE IF e = LeftoverId THEN f
                          ELSE NoFile] : f \in LeftoverSessions}

ListNext ==
    \/ \E c \in Callers, req \in ListRequests : CallBegin(c, req)
    \/ \E c \in Callers : StoreLock(c)
    \/ \E c \in Callers : StoreRLock(c)
    \/ \E c \in Callers, ok \in BOOLEAN : SaveSessionWrite(c, ok)
    \/ \E c \in Callers : ListSessionsRead(c)

ListSpec == ListInit /\ [][ListNext]_vars

\* -------------------------------------------------------------- Collector
\* handleCreateSession, line 96: c.mu.Lock()
RegLock(c) ==
    /\ hPc[c] = "regLock"
    /\ colMu = NoCaller
    /\ colMu' = c
    /\ hPc' = [hPc EXCEPT ![c] = "regInsert"]
    /\ UNCHANGED <<clientVars, panicked, tickVars, colSessions, storeVars,
                   hReq, hRes>>

\* lines 97-100: c.sessions[session.ID] = &session; c.mu.Unlock(); then the
\* call of SaveSession
RegInsert(c) ==
    /\ hPc[c] = "regInsert"
    /\ colSessions' = colSessions \cup {hReq[c].id}
    /\ colMu' = NoCaller
    /\ hPc' = [hPc EXCEPT ![c] = "lock"]
    /\ UNCHANGED <<clientVars, panicked, tickVars, storeVars, hReq, hRes>>

\* handleDeleteSession, line 146: c.mu.Lock() after DeleteSession succeeded
UnregLock(c) ==
    /\ hPc[c] = "unregLock"
    /\ colMu = NoCaller
    /\ colMu' = c
    /\ hPc' = [hPc EXCEPT ![c] = "unregDelete"]
    /\ UNCHANGED <<clientVars, panicked, tickVars, colSessions, storeVars,
                   hReq, hRes>>

\* lines 147-150: delete(c.sessions, sessionID); c.mu.Unlock(); 204
UnregDelete(c) ==
    /\ hPc[c] = "unregDelete"
    /\ colSessions' = colSessions \ {hReq[c].id}
    /\ colMu' = NoCaller
    /\ hPc' = [hPc EXCEPT ![c] = "done"]
    /\ UNCHANGED <<clientVars, panicked, tickVars, storeVars, hReq, hRes>>

\* handleHealth, lines 219-223: len(c.sessions), read without c.mu
HealthCount(c) ==
    /\ hPc[c] = "count"
    /\ hRes' = [hRes EXCEPT ![c] = [Status("ok") EXCEPT
                                      !.count = Cardinality(colSessions)]]
    /\ hPc' = [hPc EXCEPT ![c] = "done"]
    /\ UNCHANGED <<clientVars, panicked, tickVars, colMu, colSessions, storeVars,
                   hReq>>

\* the collector serving POST /sessions, DELETE /sessions/{id} and GET /health
\* concurrently, over an empty store
CollectorNext ==
    \/ \E c \in Callers, req \in HandlerRequests : CallBegin(c, req)
    \/ \E c \in Callers : RegLock(c)
    \/ \E c \in Callers : RegInsert(c)
    \/ \E c \in Callers : StoreLock(c)
    \/ \E c \in Callers, ok \in BOOLEAN : SaveSessionWrite(c, ok)
    \/ \E c \in Callers, ok \in BOOLEAN : DelSessionFile(c, ok)
    \/ \E c \in Callers, ok \in BOOLEAN : DelProfileDir(c, ok)
    \/ \E c \in Callers, ok \in BOOLEAN : DelMetricsDir(c, ok)
    \/ \E c \in Callers : UnregLock(c)
    \/ \E c \in Callers : UnregDelete(c)
    \/ \E c \in Callers : HealthCount(c)

CollectorSpec == Init /\ [][CollectorNext]_vars

\* ------------------------------------------------------------ properties
Registered(s) == \E i \in Ids : sessions[i] = s

\* the StopProfiling invocations that hold session s after their lookup
Finders(s) == {p \in StopProcs : stopFound[p] = s}

\* the StartProfiling call of s has inserted s into the map
WasRegistered(s) == startPc[s] \in {"launch", "done"}

WantsCPU(s) == Count(startCfg[s].types, {"cpu"}) > 0

\* no collector goroutine of s is left
NoTaskLeft(s) ==
    cpuTask[s] # "waiting" /\ memRun[s] = 0 /\ ioRun[s] = 0 /\ metRun[s] = 0

\* C1: Close() terminates and stops every session that is still registered
\* exactly once: whenever Close holds c.mu with session s registered, Close
\* eventually returns with s deregistered and exactly one session record sent
\* for s.
C1_CloseStopsEverySession ==
    \A s \in PS :
        (closePc = "iter" /\ Registered(s))
            ~> (closePc = "done" /\ ~Registered(s) /\ Len(sent[s]) = 1)

\* C2: once StopProfiling has found a session whose StartProfiling had launched
\* its collectors, every collector task of that session eventually terminates,
\* whether or not the caller's context is ever cancelled.
C2_TasksTerminateAfterStop ==
    \A s \in PS :
        (startPc[s] = "done" /\ Finders(s) # {}) ~> NoTaskLeft(s)

\* C3: a StopProfiling invocation whose lookup finds its id absent returns
\* NotFound in that step, sends no session record and leaves the registry,
\* every session object, the collectors, the timers and the profiler unchanged.
C3_StopAbsentIsNotFound ==
    [][\A p \in StopProcs :
          (stopPc[p] = "lock" /\ stopPc'[p] # "lock"
             /\ sessions[stopArg[p]] = NoSession)
          => /\ stopPc'[p] = "done"
             /\ stopRes'[p] = "notfound"
             /\ UNCHANGED <<sessions, ps, sent, sessCancel, cpuProf, taskVars,
                            timer, cpuArt>>]_vars

C3_Witness ==
    \E s \in PS :
        /\ Len(sent[s]) = 1
        /\ sent[s][1].by = <<"timer", s>>
        /\ stopRes[<<"manual", 1>>] = "notfound"
        /\ ~Registered(s)

\* C4: deregistration is atomic: of all StopProfiling invocations, at most one
\* ever holds a given session after its lookup, the session record is sent at
\* most once, by that invocation, and every invocation that has returned
\* without sending a record returned NotFound.
C4_AtMostOneFinder ==
    /\ \A s \in PS : Cardinality(Finders(s)) + Len(sent[s]) <= 1
    /\ \A s \in PS : Finders(s) # {} => ~Registered(s)
    /\ \A p \in StopProcs :
          stopPc[p] = "done" =>
             \/ stopRes[p] = "notfound"
             \/ \E s \in PS : Len(sent[s]) = 1 /\ sent[s][1].by = p

\* two invocations for the same id overlap: the manual one holds the session
\* and has not returned yet, the timer's has returned NotFound
C4_Witness ==
    \E s \in PS :
        /\ stopFound[<<"manual", 1>>] = s
        /\ stopPc[<<"manual", 1>>] \in {"signal", "send"}
        /\ stopRes[<<"timer", s>>] = "notfound"

\* C5: every sent session record has duration = end_time - start_time and
\* duration >= 0, carries the session's own end_time, and a session's end_time,
\* once set, is never assigned another value.
C5_DurationIsEndMinusStart ==
    /\ [](\A s \in PS : \A i \in 1..Len(sent[s]) :
             /\ sent[s][i].duration = sent[s][i].end - sent[s][i].start
             /\ sent[s][i].duration >= 0
             /\ sent[s][i].end # ZeroTime
             /\ sent[s][i].end = ps[s].end
             /\ sent[s][i].start = ps[s].start)
    /\ [][\A s \in PS : ps[s].end # ZeroTime => ps'[s].end = ps[s].end]_vars

\* a record of a session that ran while the clock advanced
C5_Witness ==
    \E s \in PS : Len(sent[s]) = 1 /\ sent[s][1].duration > 0

\* C6: sessions started concurrently are registered each under its own id, stay
\* reachable by StopProfiling until one invocation takes them, and yield at most
\* one record, carrying that session's own id and times.
C6_IndependentSessions ==
    /\ \A s, t \in PS :
          (s # t /\ WasRegistered(s) /\ WasRegistered(t)) => ps[s].id # ps[t].id
    /\ \A s \in PS :
          WasRegistered(s) => (Registered(s) \/ Finders(s) # {} \/ Len(sent[s]) = 1)
    /\ \A s \in PS : \A i \in 1..Len(sent[s]) :
          /\ Len(sent[s]) = 1
          /\ sent[s][i].id = ps[s].id
          /\ sent[s][i].start = ps[s].start
          /\ sent[s][i].end = ps[s].end

\* C7: a session started with the CPU type dispatches exactly one CPU artifact,
\* and only after its cancellation signal fired: never more than one, none
\* before the signal, and one once the session was stopped and no CPU goroutine
\* of it is left waiting.  Stated for sessions whose id no other session
\* shares, so that a failure is one of the CPU capture and not of the ids.
C7_ExactlyOneCpuArtifact ==
    \A s \in PS :
        /\ cpuArt[s] <= 1
        /\ cpuArt[s] = 1 => SessionCtxDone(s)
        /\ (WantsCPU(s) /\ startPc[s] = "done" /\ Len(sent[s]) = 1
              /\ cpuTask[s] # "waiting"
              /\ \A r \in PS \ {s} : ps[r].id # ps[s].id) => cpuArt[s] = 1

\* C8: StartProfiling never blocks: a call that has built its session
\* eventually returns the session id.
C8_StartReturns ==
    \A s \in PS : (startPc[s] = "register") ~> (startPc[s] = "done")

\* C9: a session started with a positive Duration is eventually stopped without
\* an explicit call: once its timer is armed, the timer's StopProfiling
\* eventually returns, the session is deregistered and its record was sent once.
C9_TimerStopsSession ==
    \A s \in PS :
        (timer[s] = "armed")
            ~> (stopPc[<<"timer", s>>] = "done" /\ ~Registered(s)
                  /\ Len(sent[s]) = 1)

\* C10: StopProfiling returns success exactly when the endpoint accepted the
\* record (200 or 201) and an error otherwise; the record is sent once, never
\* again, and its session is no longer in the registry, so a later lookup of it
\* finds nothing.
C10_SuccessOnlyWhenAccepted ==
    \A s \in PS : \A i \in 1..Len(sent[s]) :
        /\ stopRes[sent[s][i].by] = (IF sent[s][i].accepted THEN "ok" ELSE "error")
        /\ Len(sent[s]) = 1
        /\ ~Registered(s)
        /\ Finders(s) = {}

\* the manual call got an error for a refused record, and the timer's later
\* call for the same id returned NotFound
C10_Witness ==
    \E s \in PS :
        /\ Len(sent[s]) = 1
        /\ sent[s][1].by = <<"manual", 1>>
        /\ ~sent[s][1].accepted
        /\ stopRes[<<"manual", 1>>] = "error"
        /\ stopRes[<<"timer", s>>] = "notfound"

\* C11: the step on which DeleteSession(id) returns nil leaves a store where
\* GetSession(id) is NotFound, GetProfileData(id) and GetMetrics(id) are empty
\* and neither the profile nor the metrics directory of id exists; no step of a
\* DeleteSession(id) changes the data of another id; and data of an id of which
\* nothing is stored appears again only by a save for that id.
C11_DeleteRemovesSession ==
    [][/\ \A c \in Callers :
            LET id == hReq[c].id IN
            /\ (hPc[c] = "delMetrics" /\ hPc'[c] # "delMetrics"
                  /\ hRes'[c].status = "ok")
                 => /\ GetSessionOf(fsSessions', id).status = "notfound"
                    /\ GetProfileDataOf(fsProfiles', id) = <<>>
                    /\ GetMetricsOf(fsMetrics', id).status = "ok"
                    /\ GetMetricsOf(fsMetrics', id).mets = <<>>
                    /\ ~fsProfiles'[id].dir
                    /\ ~fsMetrics'[id].dir
            /\ (hPc[c] \in {"delSession", "delProfiles", "delMetrics"}
                  /\ hPc'[c] # hPc[c])
                 => \A j \in SIds \ {id} :
                       /\ fsSessions'[j] = fsSessions[j]
                       /\ fsProfiles'[j] = fsProfiles[j]
                       /\ fsMetrics'[j] = fsMetrics[j]
       /\ \A id \in SIds :
            (/\ fsSessions[id] = NoFile /\ ~fsProfiles[id].dir /\ ~fsMetrics[id].dir
             /\ ~(fsSessions'[id] = NoFile /\ ~fsProfiles'[id].dir
                    /\ ~fsMetrics'[id].dir))
              => \E c \in Callers :
                    /\ hReq[c].id = id
                    /\ hPc[c] \in {"saveSession", "payload", "append"}
                    /\ hPc'[c] # hPc[c]]_vars

\* a session file was saved for id 1, DeleteSession(1) returned nil, a later
\* GetSession(1) found nothing, and the metrics file of the other id is intact
C11_Witness ==
    \E c1, c2, c3 \in Callers :
        /\ hReq[c1].op = "SaveSession" /\ hReq[c1].id = 1
        /\ hPc[c1] = "done" /\ hRes[c1].status = "ok"
        /\ hReq[c2].op = "DeleteSession" /\ hReq[c2].id = 1
        /\ hPc[c2] = "done" /\ hRes[c2].status = "ok"
        /\ hReq[c3].op = "GetSession" /\ hReq[c3].id = 1
        /\ hPc[c3] = "done" /\ hRes[c3].status = "notfound"
        /\ c1 < c2 /\ c2 < c3
        /\ fsSessions[1] = NoFile
        /\ fsMetrics[LeftoverId].dir /\ fsMetrics[LeftoverId].lines # <<>>

\* C12: a GetMetrics(id) that reads a file none of whose lines exceeds the
\* scanner's line size returns, without error, exactly the snapshots of the
\* lines that are JSON, in the order of the lines; the lines that are not JSON
\* and the blank lines are left out.
C12_GetMetricsSkipsBadLines ==
    [][\A c \in Callers :
          LET lines == fsMetrics[hReq[c].id].lines
              good == SelectSeq(lines, LAMBDA l : l.kind = "json")
          IN (/\ hPc[c] = "getMetrics" /\ hPc'[c] # "getMetrics"
              /\ \A i \in 1..Len(lines) : lines[i].kind # "toolong")
               => /\ hRes'[c].status = "ok"
                  /\ Len(hRes'[c].mets) = Len(good)
                  /\ \A i \in 1..Len(good) :
                        /\ hRes'[c].mets[i].ts = good[i].ts
                        /\ hRes'[c].mets[i].cpu = good[i].cpu]_vars

\* a read of the leftover file with its garbage line and its blank line, after
\* one more snapshot was appended: three snapshots returned
C12_Witness ==
    \E c \in Callers :
        /\ hReq[c].op = "GetMetrics" /\ hReq[c].id = LeftoverId
        /\ hPc[c] = "done" /\ hRes[c].status = "ok"
        /\ Len(hRes[c].mets) = 3
        /\ \E i \in 1..Len(fsMetrics[LeftoverId].lines) :
              fsMetrics[LeftoverId].lines[i].kind = "garbage"
        /\ \E i \in 1..Len(fsMetrics[LeftoverId].lines) :
              fsMetrics[LeftoverId].lines[i].kind = "blank"

\* C13: round trip: on the step on which SaveProfileData(a) returns nil, the
\* list GetProfileData(a.session_id) returns holds an artifact with the type,
\* the sample_count, the session_id and the payload of a.
C13_ProfileRoundTrip ==
    [][\A c \in Callers :
          (hPc[c] = "meta" /\ hPc'[c] # "meta" /\ hRes'[c].status = "ok")
            => LET a == hReq[c].art
                   got == GetProfileDataOf(fsProfiles', a.session_id)
               IN \E i \in 1..Len(got) :
                     /\ got[i].type = a.type
                     /\ got[i].sample_count = a.sample_count
                     /\ got[i].session_id = a.session_id
                     /\ got[i].data = a.data]_vars

\* C14: metrics are append-only per session: a SaveMetrics(id, m) that returns
\* nil on a readable file makes GetMetrics(id) its former result followed by m
\* and changes no other id's file; and whatever the step, the lines a file held
\* stay its first lines unless the step is DeleteSession(id) removing the
\* directory, and a file changes only by SaveMetrics or DeleteSession of its id.
C14_MetricsAppendOnly ==
    [][/\ \A c \in Callers :
            LET id == hReq[c].id
                before == GetMetricsOf(fsMetrics, id)
                after == GetMetricsOf(fsMetrics', id)
            IN (/\ hPc[c] = "append" /\ hPc'[c] # "append"
                /\ hRes'[c].status = "ok"
                /\ before.status = "ok")
                 => /\ after.status = "ok"
                    /\ Len(after.mets) = Len(before.mets) + 1
                    /\ SubSeq(after.mets, 1, Len(before.mets)) = before.mets
                    /\ after.mets[Len(after.mets)].ts = hReq[c].m.ts
                    /\ after.mets[Len(after.mets)].cpu = hReq[c].m.cpu
                    /\ \A j \in SIds \ {id} : fsMetrics'[j] = fsMetrics[j]
       /\ \A id \in SIds :
            LET old == fsMetrics[id].lines
                new == fsMetrics'[id].lines
            IN \/ /\ Len(old) <= Len(new)
                  /\ SubSeq(new, 1, Len(old)) = old
                  /\ (new # old =>
                        \E c \in Callers : /\ hReq[c].id = id
                                           /\ hPc[c] = "append"
                                           /\ hPc'[c] # "append")
               \/ \E c \in Callers : /\ hReq[c].id = id
                                     /\ hPc[c] = "delMetrics"
                                     /\ hPc'[c] # "delMetrics"]_vars

\* two snapshots were saved for id 1 by two callers and a third caller read
\* both back, in the order of the saves
C14_Witness ==
    \E c1, c2, c3 \in Callers :
        /\ c1 # c2
        /\ hReq[c1].op = "SaveMetrics" /\ hReq[c1].id = 1 /\ hRes[c1].status = "ok"
        /\ hReq[c2].op = "SaveMetrics" /\ hReq[c2].id = 1 /\ hRes[c2].status = "ok"
        /\ hReq[c3].op = "GetMetrics" /\ hReq[c3].id = 1 /\ hPc[c3] = "done"
        /\ Len(hRes[c3].mets) = 2
        /\ hRes[c3].mets[1].cpu = hReq[c1].m.cpu
        /\ hRes[c3].mets[2].cpu = hReq[c2].m.cpu
        /\ hReq[c1].m.cpu # hReq[c2].m.cpu

C16_RegistryAccessUnderLock ==
    /\ \A c \in Callers : hPc[c] \in {"regInsert", "unregDelete"} => colMu = c
    /\ \A c, d \in Callers :
          ~(hPc[c] = "count" /\ hPc[d] \in {"regInsert", "unregDelete"})

\* C17: no configuration accepted by StartProfiling lets a background
\* collector abort the host process: no goroutine of the client ever panics.
C17_NoCollectorCrash == ~panicked

\* C18: after StopProfiling has cleared the liveness flag of a session and
\* fired its cancellation, each periodic task of the session performs at most
\* one further dispatch: at most one per memory/heap task, one per IO task and
\* one for the metrics task.
C18_AtMostOneLateDispatch ==
    \A s \in PS :
        /\ lateMem[s] <= Count(startCfg[s].types, {"memory", "heap"})
        /\ lateIO[s] <= Count(startCfg[s].types, {"io"})
        /\ lateMet[s] <= 1

\* C19: within one session at most one collector task emits the artifacts of a
\* given type, and no two captures of the same type are under way together:
\* one task at most produces heap artifacts, one at most io artifacts.
C19_OneTaskPerArtifactType ==
    \A s \in PS :
        /\ memRun[s] <= 1 /\ memBusy[s] <= 1
        /\ ioRun[s] <= 1 /\ ioBusy[s] <= 1

\* C20: a session's CPU capture runs until that session's own cancellation
\* fires: while the CPU goroutine of a session waits and its sessionCtx is not
\* done, the process-wide profiler is still writing that session's buffer,
\* whatever StopProfiling did to another session.  Stated for sessions whose
\* id no other session shares.
C20_CpuCaptureOutlivesOtherStops ==
    \A s \in PS :
        (cpuTask[s] = "waiting" /\ ~SessionCtxDone(s)
           /\ \A r \in PS \ {s} : ps[r].id # ps[s].id) => cpuProf = s

\* C21: session ids are unique: the step of StartProfiling that registers a
\* session never finds another session under its id, so it replaces none, and
\* a session that was registered and that no StopProfiling has taken is still
\* the one the map holds under its id.
C21_UniqueSessionIds ==
    /\ [][\A s \in PS :
            (startPc[s] = "register" /\ startPc'[s] = "launch")
              => sessions[ps[s].id] = NoSession]_vars
    /\ [](\A s \in PS :
            (WasRegistered(s) /\ Finders(s) = {} /\ sent[s] = <<>>)
              => sessions[ps[s].id] = s)

\* C22: once Close has cancelled c.ctx, autoProfile begins no StartProfiling
\* call, and once Close has returned, the map holds no session that
\* autoProfile started.
C22_NoAutoStartAfterClose ==
    /\ [][\A s \in PS :
            (clientCtx /\ startPc[s] = "idle" /\ startCtx'[s] = "client")
              => startPc'[s] = "idle"]_vars
    /\ [](closePc = "done"
            => \A i \in Keys : sessions[i] = NoSession
                                 \/ startCtx[sessions[i]] # "client")

\* C23: every session the map holds is active, with EndTime zero and
\* collecting set, and a step that writes EndTime or clears collecting acts
\* on a session that is in the map neither before nor after the step.
C23_RegisteredIsActive ==
    /\ [](\A s \in PS : Registered(s)
            => ps[s].end = ZeroTime /\ ps[s].collecting)
    /\ [][\A s \in PS :
            (ps'[s].end # ps[s].end \/ (ps[s].collecting /\ ~ps'[s].collecting))
              => ~Registered(s) /\ ~Registered(s)']_vars

\* a StopProfiling call has written EndTime of a session it took out of the
\* map, while the map holds another session under the same id
C23_Witness ==
    \E s \in PS, t \in PS :
        /\ s # t
        /\ ps[t].end # ZeroTime
        /\ ~ps[t].collecting
        /\ ps[s].id = ps[t].id
        /\ Registered(s)

\* C24: while a session is live and its context is not done, every goroutine
\* of a periodic task that StartProfiling launched is still in its loop after a
\* dispatch of that task returned an error, and so takes the next tick.
C24_FailedDispatchKeepsTask ==
    \A s \in PS :
        (ps[s].collecting /\ ~CtxDone(s) /\ ~panicked) =>
            /\ sendErr[s].mem => memRun[s] = Count(startCfg[s].types, {"memory", "heap"})
            /\ sendErr[s].io => ioRun[s] = Count(startCfg[s].types, {"io"})
            /\ sendErr[s].met => metRun[s] = 1

\* the latest dispatch of each of the three tasks failed, the session is live,
\* and every memory and io goroutine has taken a tick again
C24_Witness ==
    \E s \in PS :
        /\ ps[s].collecting /\ ~CtxDone(s) /\ ~panicked
        /\ sendErr[s].mem /\ sendErr[s].io /\ sendErr[s].met
        /\ memRun[s] > 0 /\ memBusy[s] = memRun[s]
        /\ ioRun[s] > 0 /\ ioBusy[s] = ioRun[s]

\* the sum modulo 2^64 of the read and of the write deltas of a sequence of
\* io samples
RECURSIVE SumDeltas(_)
SumDeltas(samples) ==
    IF samples = <<>> THEN [read |-> Zero64, write |-> Zero64]
    ELSE LET rest == SumDeltas(Tail(samples))
         IN  [read |-> Add64(Head(samples).readDelta, rest.read),
              write |-> Add64(Head(samples).writeDelta, rest.write)]

\* C26: in the io task the first dispatched sample carries the counters as
\* deltas, a later one the counters minus those of the sample before (uint64),
\* the baseline is the latest successful reading, and the dispatched deltas sum
\* modulo 2^64 to the counters read last.
C26_IODeltasTelescope ==
    \A s \in PS :
        LET S == ioSent[s]
            n == Len(S)
            before(k) == IF k = 1 THEN [read |-> Zero64, write |-> Zero64] ELSE S[k - 1]
        IN  /\ n > 0 => S[1].readDelta = S[1].read /\ S[1].writeDelta = S[1].write
            /\ \A k \in 1..n :
                 /\ S[k].readDelta = Sub64(S[k].read, before(k).read)
                 /\ S[k].writeDelta = Sub64(S[k].write, before(k).write)
            /\ ioPrev[s] = [read |-> before(n + 1).read, write |-> before(n + 1).write]
            /\ SumDeltas(S) = ioPrev[s]

\* three samples were dispatched, one of them after a counter went down, so
\* that its delta wrapped around
C26_Witness ==
    \E s \in PS :
        /\ Len(ioSent[s]) = MaxSamples
        /\ \E k \in 2..MaxSamples : Less64(ioSent[s][k].read, ioSent[s][k - 1].read)
        /\ \E k \in 2..MaxSamples : ~Less64(ioSent[s][k].write, ioSent[s][k - 1].write)
        /\ sendErr[s].io

\* the (type, second) key of an artifact
TypeSecond(a) == <<a.type, a.timestamp[1]>>

\* C25: on the step on which SaveProfileData(a) returns nil, GetProfileData
\* returns exactly one artifact with the type and second of a, and it carries
\* the payload, timestamp and sample_count of a; and an artifact it returned
\* before under another (type, second) key is still returned.
C25_OneArtifactPerTypeSecond ==
    [][\A c \in Callers :
          (hPc[c] = "meta" /\ hPc'[c] # "meta" /\ hRes'[c].status = "ok"
             /\ ~SidecarPanics(fsProfiles'[hReq[c].id]))
            => LET a == hReq[c].art
                   before == GetProfileDataOf(fsProfiles, a.session_id)
                   got == GetProfileDataOf(fsProfiles', a.session_id)
                   same == {i \in 1..Len(got) : TypeSecond(got[i]) = TypeSecond(a)}
               IN /\ Cardinality(same) = 1
                  /\ \A i \in same : got[i] = a
                  /\ \A i \in 1..Len(before) :
                        TypeSecond(before[i]) # TypeSecond(a)
                          => \E j \in 1..Len(got) : got[j] = before[i]]_vars

\* C27: a ListSessions(app) call succeeds and returns, once each, the records
\* of the {id}.json files that can be read and that parse, those of
\* application app when app is not empty and all of them when it is; a
\* directory, a file without the extension, an unreadable or an unparseable
\* file adds nothing.
C27_ListSessionsSkipsBadFiles ==
    [][\A c \in Callers :
          (hPc[c] = "listSessions" /\ hPc'[c] # "listSessions")
            => LET app == hReq[c].app
                   got == hRes'[c].sess
                   good == {id \in SIds :
                              /\ fsSessions[id] # NoFile
                              /\ fsSessions[id] \notin {<<Garbled>>, <<Unreadable>>,
                                                         <<Directory>>}
                              /\ (app = "" \/ fsSessions[id][1].application_id = app)}
               IN /\ hRes'[c].status = "ok"
                  /\ {got[i] : i \in 1..Len(got)} = {fsSessions[id][1] : id \in good}
                  /\ Len(got) = Cardinality(good)]_vars

\* a ListSessions call for application a has returned one session, though a
\* file without the extension holds a record of a as well, and a call for
\* application b none, the leftover file being unreadable or not JSON
C27_Witness ==
    /\ \E c \in Callers :
          /\ hReq[c].op = "ListSessions" /\ hReq[c].app = "a"
          /\ hRes[c].status = "ok" /\ Len(hRes[c].sess) = 1
    /\ \E c \in Callers :
          /\ hReq[c].op = "ListSessions" /\ hReq[c].app = "b"
          /\ hRes[c].status = "ok" /\ hRes[c].sess = <<>>
    /\ fsSessions[LeftoverId] \in {<<Garbled>>, <<Unreadable>>}

\* C28: a GetMetrics(id) that reads a file with one line longer than the
\* scanner's line size returns, without error, the snapshots of the lines that
\* are JSON, in the order of the lines.
C28_GetMetricsSkipsOversizeLine ==
    [][\A c \in Callers :
          LET lines == fsMetrics[hReq[c].id].lines
              good == SelectSeq(lines, LAMBDA l : l.kind = "json")
          IN (/\ hPc[c] = "getMetrics" /\ hPc'[c] # "getMetrics"
              /\ Cardinality({i \in 1..Len(lines) : lines[i].kind = "toolong"}) = 1)
               => /\ hRes'[c].status = "ok"
                  /\ hRes'[c].mets = [i \in 1..Len(good) |-> Unmarshal(good[i])]]_vars

\* C29: a GetProfileData(id) call on a directory whose sidecars that parse have
\* their keys succeeds and returns one artifact for each sidecar that exists
\* and parses and whose payload exists, and nothing else: a payload without a
\* sidecar, a sidecar without its payload and a sidecar that is not JSON add
\* nothing and do not fail the call.
C29_ArtifactNeedsBothFiles ==
    [][\A c \in Callers :
          LET id == hReq[c].id
              d == fsProfiles[id]
              got == hRes'[c].arts
              whole == {n \in Names :
                          /\ d.dir
                          /\ d.meta[n] \notin {NoFile, <<Corrupt>>}
                          /\ d.pprof[d.meta[n][1].file] # NoFile}
          IN (/\ hPc[c] = "getProfiles" /\ hPc'[c] # "getProfiles"
              /\ \A n \in Names : d.meta[n] # <<FileOnly>>)
               => /\ hRes'[c].status = "ok"
                  /\ {got[i] : i \in 1..Len(got)}
                       = {ArtifactOf(id, d.meta[n][1], d.pprof[d.meta[n][1].file][1]) :
                            n \in whole}
                  /\ Len(got) = Cardinality(whole)]_vars

\* a call has returned the one complete pair of a directory that also holds a
\* payload without a sidecar, a sidecar without its payload and a sidecar that
\* is not JSON
C29_Witness ==
    \E c \in Callers :
        LET d == fsProfiles[LeftoverId] IN
        /\ hReq[c].op = "GetProfileData" /\ hReq[c].id = LeftoverId
        /\ hPc[c] = "done" /\ hRes[c].status = "ok"
        /\ Len(hRes[c].arts) = 1
        /\ \E n \in Names : d.pprof[n] # NoFile /\ d.meta[n] = NoFile
        /\ \E n \in Names : d.meta[n] \notin {NoFile, <<Corrupt>>}
                              /\ d.pprof[d.meta[n][1].file] = NoFile
        /\ \E n \in Names : d.meta[n] = <<Corrupt>> /\ d.pprof[n] # NoFile

\* C30: handleCreateSession has put the id into the map when it calls
\* SaveSession, and the return of a failed SaveSession answers with an error
\* and changes neither the map nor the stored records, so that with no delete
\* request for the id it stays in the map with no record stored;
\* an id leaves the map only by the step of a handleDeleteSession whose
\* DeleteSession returned nil.
C30_InsertBeforeSaveNoRollback ==
    /\ [][\A c \in Callers :
            (hReq[c].op = "handleCreateSession" /\ hPc[c] = "saveSession"
               /\ hPc'[c] # "saveSession" /\ hRes'[c].status # "ok")
              => /\ hRes'[c].status = "error"
                 /\ colSessions' = colSessions
                 /\ fsSessions' = fsSessions]_vars
    /\ [](\A c \in Callers :
            (/\ hReq[c].op = "handleCreateSession"
             /\ hPc[c] \in {"lock", "saveSession", "done"}
             /\ \A d \in Callers : ~(hReq[d].op = "handleDeleteSession"
                                       /\ hReq[d].id = hReq[c].id))
              => hReq[c].id \in colSessions)
    /\ [][\A id \in SIds :
            (id \in colSessions /\ id \notin colSessions')
              => \E c \in Callers :
                    /\ hReq[c].op = "handleDeleteSession" /\ hReq[c].id = id
                    /\ hPc[c] = "unregDelete"
                    /\ hRes[c].status = "ok"]_vars

\* a create request was answered with an error, its id is in the map and no
\* record of it is stored, and a health request has counted an id
C30_Witness ==
    /\ \E c \in Callers :
          /\ hReq[c].op = "handleCreateSession"
          /\ hPc[c] = "done" /\ hRes[c].status = "error"
          /\ hReq[c].id \in colSessions
          /\ fsSessions[hReq[c].id] = NoFile
    /\ \E c \in Callers :
          /\ hReq[c].op = "handleHealth" /\ hPc[c] = "done" /\ hRes[c].count > 0
====
